---- MODULE Spec2Model ----
(***************************************************************************)
(* para_mlp/train.py: the hyper-parameter grid, the k-fold cross          *)
(* validation over it (cross_validate) and the orchestration around it    *)
(* (train_and_eval), as a sequential state machine.  pc is the position   *)
(* in the code; one action per statement group of the source.             *)
(*                                                                         *)
(* Conventions.  An unbound Python name / a None is the empty sequence    *)
(* None, a bound one is the one-element sequence Some(v).  Rows of the    *)
(* target vector and structures are numbered from 1 (Python: from 0).     *)
(* A float is a record [m, e] standing for m * 10^e with m in 1..9, so    *)
(* that 1e10 can be written down; only the comparison < is used on them.  *)
(***************************************************************************)
EXTENDS Integers, Sequences, FiniteSets, TLC

\* ------------------------------------------------------------- bounds
MaxStructures == 3
MaxSplits == 3
MaxAlpha == 2
MaxGrid == 4
\* force rows a structure has in the target vector of a pool with forces
ForceRowsPerStructure == 1

\* ---------------------------------------------------------- constants
GaussianStep == 5
RadiusStep == 2

None == <<>>
Some(v) == <<v>>
IsNone(o) == o = <<>>
Get(o) == o[1]

\* ------------------------------------------------------------- floats
Flt(m, e) == [m |-> m, e |-> e]
\* Python's a < b on two positive floats
Less(a, b) == a.e < b.e \/ (a.e = b.e /\ a.m < b.m)
\* retained_model_rmse = 1e10
InitialRetainedRmse == Flt(1, 10)
\* the mean combined-target RMSE values a candidate can come out with
Scores == {Flt(4, 0), Flt(5, 0), Flt(6, 0), Flt(1, 10)}

\* ---------------------------------------------------------- numpy bits
\* Python int() of x / 2.0 for an integer x: truncation towards zero
IntHalf(x) == IF x >= 0 THEN x \div RadiusStep ELSE -((-x) \div RadiusStep)

\* np.linspace(start, stop, num) for num >= 0; a point is the rational
\* [num, den] = start + i * (stop - start) / (num - 1)
linspace(start, stop, num) ==
    IF num = 1
    THEN << [num |-> start, den |-> 1] >>
    ELSE [i \in 1..num |->
            [num |-> start * (num - 1) + (i - 1) * (stop - start), den |-> num - 1]]

\* np.arange(start, stop, step) for step > 0: ceil((stop - start) / step)
\* values start, start + step, ...
arange(start, stop, step) ==
    LET len == (stop - start + step - 1) \div step
    IN  [i \in 1..(IF len > 0 THEN len ELSE 0) |-> start + (i - 1) * step]

\* ---------------------------------------------------- make_param_grid
cutoff_radius_num(config) ==
    IntHalf(config.cutoff_radius_max - config.cutoff_radius_min) + 1

\* np.linspace raises ValueError on a negative number of samples
make_param_grid_raises(config) == cutoff_radius_num(config) < 0

make_param_grid(config) ==
    [cutoff_radius |->
        linspace(config.cutoff_radius_min, config.cutoff_radius_max,
                 cutoff_radius_num(config)),
     gaussian_params2_num |->
        arange(config.gaussian_params2_num_min,
               config.gaussian_params2_num_max + GaussianStep, GaussianStep),
     alpha |-> config.alpha]

\* sklearn's ParameterGrid: keys sorted (alpha, cutoff_radius,
\* gaussian_params2_num), the last key varying fastest
GridSize(pg) ==
    Len(pg.alpha) * Len(pg.cutoff_radius) * Len(pg.gaussian_params2_num)

ParameterGrid(pg) ==
    LET lr == Len(pg.cutoff_radius)
        lg == Len(pg.gaussian_params2_num)
    IN  [i \in 1..GridSize(pg) |->
            [alpha |-> pg.alpha[((i - 1) \div (lg * lr)) + 1],
             cutoff_radius |-> pg.cutoff_radius[(((i - 1) \div lg) % lr) + 1],
             gaussian_params2_num |-> pg.gaussian_params2_num[((i - 1) % lg) + 1]]]

\* all([len(val) == 1 for val in param_grid.values()])
dont_cross_validate(pg) ==
    /\ Len(pg.alpha) = 1
    /\ Len(pg.cutoff_radius) = 1
    /\ Len(pg.gaussian_params2_num) = 1

\* ------------------------------------------- the model collaborator
\* para_mlp.model.RILRM: created empty; make_feature builds the feature
\* matrix x (and fits the scaler), apply_weight sets the sample weights,
\* train overwrites the fitted coefficients.
RILRM(model_params) ==
    [params |-> model_params, x |-> None, scaler |-> None,
     weights |-> None, coef |-> None]

make_feature(model, structures) ==
    [model EXCEPT !.x = Some([of |-> model.params, structures |-> structures]),
                  !.scaler = Some(structures)]

apply_weight(model, energy_weight, force_weight, n_structure) ==
    [model EXCEPT !.weights =
        Some([energy_weight |-> energy_weight, force_weight |-> force_weight,
              n_structure |-> n_structure])]

train(model, train_index, target) ==
    [model EXCEPT !.coef =
        Some([x |-> model.x, weights |-> model.weights,
              rows |-> train_index, target |-> target])]

\* Keep hyper_params to store variable parameters; the structural fields
\* come from config
arrange_model_from_hyper_params(hyper_params, config) ==
    RILRM([hyper_params |-> hyper_params, use_force |-> config.use_force])

\* ------------------------------------------------------------- KFold
\* KFold(n_splits, shuffle=True, random_state=0).split over n samples.
\* The seeded shuffle is a fixed permutation of the structures; which one
\* is left open between the kinds below.
ShuffleKinds == {"reverse", "rotate"}

shuffled(kind, n, i) == IF kind = "reverse" THEN n + 1 - i ELSE (i % n) + 1

\* the first n % k folds hold n // k + 1 samples, the others n // k
fold_size(n, k, f) == (n \div k) + (IF f <= n % k THEN 1 ELSE 0)

fold_start(n, k, f) == (f - 1) * (n \div k) + (IF f - 1 <= n % k THEN f - 1 ELSE n % k)

valid_index(kind, n, k, f) ==
    {shuffled(kind, n, i) : i \in (fold_start(n, k, f) + 1)..(fold_start(n, k, f) + fold_size(n, k, f))}

train_index(kind, n, k, f) == (1..n) \ valid_index(kind, n, k, f)

\* KFold raises ValueError for n_splits <= 1, split for n_splits > n_samples
KFold_raises(n_splits, n_samples) == n_splits <= 1 \/ n_splits > n_samples

\* para_mlp.utils.make_yids_for_structure_ids: the rows of the target
\* vector that belong to the structures: their energy rows, and with
\* use_force their force_id_unit force rows each
make_yids_for_structure_ids(structure_ids, n_structure, unit, use_force) ==
    LET energy == structure_ids
        force == {n_structure + (s - 1) * unit + j : s \in structure_ids, j \in 1..unit}
    IN  [energy |-> energy,
         force |-> IF use_force THEN force ELSE {},
         target |-> IF use_force THEN energy \cup force ELSE energy]

\* -------------------------------------------------------------- state
VARIABLES
    pc,                    \* position in train_and_eval / cross_validate
    err,                   \* the exception that ended the run, or "none"
    caller,                \* who called cross_validate
    config,                \* Config
    kfold_dataset,         \* the k-fold pool: structures and target
    test_dataset,          \* the held-out pool
    kfold_shuffle,         \* the permutation KFold's seeded shuffle yields
    force_id_unit,
    param_grid,
    cand,                  \* index of hyper_params in ParameterGrid(param_grid)
    fold,                  \* index of the current (train_index, valid_index)
    test_model,
    test_model_rmses,      \* the folds whose RMSE has been appended
    test_model_rmse,
    retained_model,
    retained_model_rmse,
    retained_model_params,
    log                    \* the collaborator calls and stages so far

vars == <<pc, err, caller, config, kfold_dataset, test_dataset, kfold_shuffle,
          force_id_unit, param_grid, cand, fold, test_model, test_model_rmses,
          test_model_rmse, retained_model, retained_model_rmse,
          retained_model_params, log>>

inputs == <<config, kfold_dataset, test_dataset, kfold_shuffle, caller>>
cv_locals == <<cand, fold, test_model, test_model_rmses, test_model_rmse>>
retained == <<retained_model, retained_model_rmse, retained_model_params>>

Ev(op, c, f, rows, structures, rmse) ==
    [op |-> op, cand |-> c, fold |-> f, rows |-> rows,
     structures |-> structures, rmse |-> rmse]

\* an uncaught exception ends the run
Raise(e) ==
    /\ pc' = "error"
    /\ err' = e
    /\ UNCHANGED <<inputs, force_id_unit, param_grid, cv_locals, retained, log>>

\* ------------------------------------------------------------- inputs
RadiusBounds == {<<4, 0>>, <<4, 1>>, <<4, 4>>, <<4, 7>>}
GaussianBounds == {<<1, 1>>, <<1, 3>>, <<6, 1>>}
WeightPairs == {<<1, 1>>, <<2, 3>>}

AlphaLists(max) == {[i \in 1..n |-> i] : n \in 0..max}

ConfigSet(radius, gaussian, alphas, weights, forces) ==
    {[cutoff_radius_min |-> r[1], cutoff_radius_max |-> r[2],
      gaussian_params2_num_min |-> g[1], gaussian_params2_num_max |-> g[2],
      alpha |-> a, n_splits |-> k,
      energy_weight |-> w[1], force_weight |-> w[2], use_force |-> uf] :
        r \in radius, g \in gaussian, a \in alphas, k \in 0..MaxSplits,
        w \in weights, uf \in forces}

\* a pool of n structures whose target vector holds the n energies, then
\* the force rows, then extra rows that belong to no structure
Dataset(name, n, use_force, extra) ==
    [name |-> name, n_structure |-> n,
     target |-> [i \in 1..(n * (1 + (IF use_force THEN ForceRowsPerStructure ELSE 0))
                           + extra) |-> i]]

Unbound ==
    /\ err = "none"
    /\ force_id_unit = None
    /\ cand = 0
    /\ fold = 0
    /\ test_model = None
    /\ test_model_rmses = <<>>
    /\ test_model_rmse = None
    /\ retained_model = None
    /\ retained_model_rmse = None
    /\ retained_model_params = None
    /\ log = <<>>

\* train_and_eval(config, kfold_dataset, test_dataset, yids_for_kfold)
Init ==
    /\ pc = "tae_start"
    /\ caller = "train_and_eval"
    /\ config \in ConfigSet(RadiusBounds, GaussianBounds, AlphaLists(MaxAlpha),
                            WeightPairs, BOOLEAN)
    /\ make_param_grid_raises(config) \/ GridSize(make_param_grid(config)) <= MaxGrid
    /\ \E n \in 1..MaxStructures, extra \in 0..1 :
          kfold_dataset = Dataset("kfold", n, config.use_force, extra)
    /\ test_dataset = Dataset("test", 1, config.use_force, 0)
    /\ kfold_shuffle \in ShuffleKinds
    /\ param_grid = None
    /\ Unbound

\* cross_validate(config, param_grid, kfold_dataset, high_energy_index_list)
\* called on its own, with the grid of a config
InitCV ==
    /\ pc = "cv_start"
    /\ caller = "direct"
    /\ config \in ConfigSet(RadiusBounds, GaussianBounds, AlphaLists(MaxAlpha),
                            WeightPairs, BOOLEAN)
    /\ ~make_param_grid_raises(config)
    /\ GridSize(make_param_grid(config)) <= MaxGrid
    /\ \E n \in 1..MaxStructures, extra \in 0..1 :
          kfold_dataset = Dataset("kfold", n, config.use_force, extra)
    /\ test_dataset = Dataset("test", 1, config.use_force, 0)
    /\ kfold_shuffle \in ShuffleKinds
    /\ param_grid = Some(make_param_grid(config))
    /\ Unbound

\* ----------------------------------------------------- train_and_eval
\* n_kfold_structure, force_id_unit; the dataset-level weighting of the
\* target in place.  high_energy_weights is [1.0]: no override.
TaeWeightTarget ==
    /\ pc = "tae_start"
    /\ LET n == kfold_dataset.n_structure
           t == kfold_dataset.target
       IN  /\ force_id_unit' = Some((Len(t) \div n) - 1)
           /\ kfold_dataset' =
                [kfold_dataset EXCEPT !.target =
                    [i \in 1..Len(t) |->
                        IF i <= n
                        THEN (IF config.energy_weight # 1 THEN t[i] * config.energy_weight ELSE t[i])
                        ELSE (IF config.force_weight # 1 THEN t[i] * config.force_weight ELSE t[i])]]
    /\ pc' = "tae_grid"
    /\ UNCHANGED <<err, caller, config, test_dataset, kfold_shuffle, param_grid,
                   cv_locals, retained, log>>

\* param_grid = make_param_grid(config)
TaeMakeParamGrid ==
    /\ pc = "tae_grid"
    /\ IF make_param_grid_raises(config)
       THEN Raise("ValueError")
       ELSE /\ param_grid' = Some(make_param_grid(config))
            /\ pc' = "tae_select"
            /\ UNCHANGED <<err, inputs, force_id_unit, cv_locals, retained, log>>

\* variant: the search is run whatever the grid
TaeSelectAlwaysSearch ==
    /\ pc = "tae_select"
    /\ pc' = "cv_start"
    /\ UNCHANGED <<err, inputs, force_id_unit, param_grid, cv_locals, retained, log>>

\* if dont_cross_validate: ... else: retained_model = cross_validate(...)
TaeSelect ==
    /\ pc = "tae_select"
    /\ IF dont_cross_validate(Get(param_grid))
       THEN /\ retained_model' =
                  Some(arrange_model_from_hyper_params(
                          ParameterGrid(Get(param_grid))[1], config))
            /\ pc' = "tae_rebuild"
       ELSE /\ pc' = "cv_start"
            /\ UNCHANGED retained_model
    /\ UNCHANGED <<err, inputs, force_id_unit, param_grid, cv_locals,
                   retained_model_rmse, retained_model_params, log>>

\* ----------------------------------------------------- cross_validate
Candidates == ParameterGrid(Get(param_grid))
hyper_params == Candidates[cand]
n_kfold_structure == kfold_dataset.n_structure

\* n_kfold_structure, force_id_unit, retained_model_rmse = 1e10 and the
\* construction of ParameterGrid(param_grid): recent scikit-learn raises
\* ValueError on an empty dimension, older ones yield an empty iteration
CvStart ==
    /\ pc = "cv_start"
    /\ \E validates \in BOOLEAN :
          IF validates /\ GridSize(Get(param_grid)) = 0
          THEN Raise("ValueError")
          ELSE /\ force_id_unit' =
                     Some((Len(kfold_dataset.target) \div n_kfold_structure) - 1)
               /\ retained_model_rmse' = Some(InitialRetainedRmse)
               /\ pc' = "cv_loop"
               /\ UNCHANGED <<err, inputs, param_grid, cv_locals, retained_model,
                              retained_model_params, log>>

\* for hyper_params in ParameterGrid(param_grid):
\*     test_model = arrange_model_from_hyper_params(hyper_params, config)
\* (the mean of the previous iteration is dead here: left unbound)
CvNextCandidate ==
    /\ pc = "cv_loop"
    /\ cand < Len(Candidates)
    /\ cand' = cand + 1
    /\ test_model' = Some(arrange_model_from_hyper_params(Candidates[cand + 1], config))
    /\ test_model_rmse' = None
    /\ pc' = "cv_make_feature"
    /\ UNCHANGED <<err, inputs, force_id_unit, param_grid, fold, test_model_rmses,
                   retained, log>>

\* test_model.make_feature(kfold_dataset["structures"], make_scaler=True)
CvMakeFeature ==
    /\ pc = "cv_make_feature"
    /\ test_model' = Some(make_feature(Get(test_model), kfold_dataset.name))
    /\ log' = Append(log, Ev("make_feature", cand, 0, {}, kfold_dataset.name, None))
    /\ pc' = "cv_apply_weight"
    /\ UNCHANGED <<err, inputs, force_id_unit, param_grid, cand, fold,
                   test_model_rmses, test_model_rmse, retained>>

\* test_model.apply_weight(...)
CvApplyWeight ==
    /\ pc = "cv_apply_weight"
    /\ test_model' = Some(apply_weight(Get(test_model), config.energy_weight,
                                       config.force_weight, n_kfold_structure))
    /\ log' = Append(log, Ev("apply_weight", cand, 0, {}, kfold_dataset.name, None))
    /\ pc' = "cv_kfold"
    /\ UNCHANGED <<err, inputs, force_id_unit, param_grid, cand, fold,
                   test_model_rmses, test_model_rmse, retained>>

\* test_model_rmses = []; kf = KFold(n_splits=config.n_splits, ...);
\* for train_index, valid_index in kf.split(index_matrix):
CvKFold ==
    /\ pc = "cv_kfold"
    /\ IF KFold_raises(config.n_splits, n_kfold_structure)
       THEN Raise("ValueError")
       ELSE /\ test_model_rmses' = <<>>
            /\ fold' = 1
            /\ pc' = "cv_train"
            /\ UNCHANGED <<err, inputs, force_id_unit, param_grid, cand, test_model,
                           test_model_rmse, retained, log>>

yids_for_train ==
    make_yids_for_structure_ids(
        train_index(kfold_shuffle, n_kfold_structure, config.n_splits, fold),
        n_kfold_structure, Get(force_id_unit), config.use_force)

yids_for_valid ==
    make_yids_for_structure_ids(
        valid_index(kfold_shuffle, n_kfold_structure, config.n_splits, fold),
        n_kfold_structure, Get(force_id_unit), config.use_force)

\* test_model.train(yids_for_train["target"], kfold_dataset["target"])
CvTrainFold ==
    /\ pc = "cv_train"
    /\ test_model' = Some(train(Get(test_model), yids_for_train.target,
                                kfold_dataset.target))
    /\ log' = Append(log, Ev("train", cand, fold, yids_for_train.target,
                             kfold_dataset.name, None))
    /\ pc' = "cv_predict"
    /\ UNCHANGED <<err, inputs, force_id_unit, param_grid, cand, fold,
                   test_model_rmses, test_model_rmse, retained>>

\* y_predict = test_model.predict()
CvPredictFold ==
    /\ pc = "cv_predict"
    /\ log' = Append(log, Ev("predict", cand, fold, {}, kfold_dataset.name, None))
    /\ pc' = "cv_score"
    /\ UNCHANGED <<err, inputs, force_id_unit, param_grid, cv_locals, retained>>

\* variant: the fold loop stops one fold early
CvScoreFoldShort ==
    /\ pc = "cv_score"
    /\ test_model_rmses' = Append(test_model_rmses, fold)
    /\ log' = Append(log, Ev("score", cand, fold, yids_for_valid.target,
                             kfold_dataset.name, None))
    /\ IF fold < config.n_splits - 1
       THEN fold' = fold + 1 /\ pc' = "cv_train"
       ELSE fold' = fold /\ pc' = "cv_aggregate"
    /\ UNCHANGED <<err, inputs, force_id_unit, param_grid, cand, test_model,
                   test_model_rmse, retained>>

\* test_model_rmses.append(rmse(y_predict[yids_for_valid["target"]], ...))
\* and the energy and force scores; then the next fold
CvScoreFold ==
    /\ pc = "cv_score"
    /\ test_model_rmses' = Append(test_model_rmses, fold)
    /\ log' = Append(log, Ev("score", cand, fold, yids_for_valid.target,
                             kfold_dataset.name, None))
    /\ IF fold < config.n_splits
       THEN fold' = fold + 1 /\ pc' = "cv_train"
       ELSE fold' = fold /\ pc' = "cv_aggregate"
    /\ UNCHANGED <<err, inputs, force_id_unit, param_grid, cand, test_model,
                   test_model_rmse, retained>>

\* test_model_rmse = average(test_model_rmses); stat.stdev(...): the mean
\* of the fold scores, whatever the model's predictions make it
CvAggregate ==
    /\ pc = "cv_aggregate"
    /\ \E mean \in Scores :
          /\ test_model_rmse' = Some(mean)
          /\ log' = Append(log, Ev("aggregate", cand, 0, {}, kfold_dataset.name,
                                   Some(mean)))
    /\ pc' = "cv_compare"
    /\ UNCHANGED <<err, inputs, force_id_unit, param_grid, cand, fold, test_model,
                   test_model_rmses, retained>>

\* variant: the comparison taken as <=: a tie replaces the retained one
CvCompareOrEqual ==
    /\ pc = "cv_compare"
    /\ IF ~Less(Get(retained_model_rmse), Get(test_model_rmse))
       THEN /\ pc' = "cv_retain"
            /\ log' = Append(log, Ev("compare", cand, 0, {}, kfold_dataset.name, None))
       ELSE /\ pc' = "cv_report"
            /\ log' = log \o << Ev("compare", cand, 0, {}, kfold_dataset.name, None),
                                Ev("discard", cand, 0, {}, kfold_dataset.name, None) >>
    /\ UNCHANGED <<err, inputs, force_id_unit, param_grid, cv_locals, retained>>

\* if test_model_rmse < retained_model_rmse:
CvCompare ==
    /\ pc = "cv_compare"
    /\ IF Less(Get(test_model_rmse), Get(retained_model_rmse))
       THEN /\ pc' = "cv_retain"
            /\ log' = Append(log, Ev("compare", cand, 0, {}, kfold_dataset.name, None))
       ELSE /\ pc' = "cv_report"
            /\ log' = log \o << Ev("compare", cand, 0, {}, kfold_dataset.name, None),
                                Ev("discard", cand, 0, {}, kfold_dataset.name, None) >>
    /\ UNCHANGED <<err, inputs, force_id_unit, param_grid, cv_locals, retained>>

\* retained_model_rmse = test_model_rmse
\* retained_model = copy.deepcopy(test_model)
\* retained_model_params = copy.deepcopy(hyper_params)
CvRetainCopy ==
    /\ pc = "cv_retain"
    /\ retained_model_rmse' = test_model_rmse
    /\ retained_model' = test_model
    /\ retained_model_params' = Some(hyper_params)
    /\ log' = Append(log, Ev("retain", cand, 0, {}, kfold_dataset.name, None))
    /\ pc' = "cv_release"
    /\ UNCHANGED <<err, inputs, force_id_unit, param_grid, cv_locals>>

\* variant: the snapshot keeps its copy of the feature matrix
CvRetainKeepsMatrix ==
    /\ pc = "cv_release"
    /\ pc' = "cv_report"
    /\ UNCHANGED <<err, inputs, force_id_unit, param_grid, cv_locals, retained, log>>

\* retained_model.x = None
CvRetainRelease ==
    /\ pc = "cv_release"
    /\ retained_model' = Some([Get(retained_model) EXCEPT !.x = None])
    /\ pc' = "cv_report"
    /\ UNCHANGED <<err, inputs, force_id_unit, param_grid, cv_locals,
                   retained_model_rmse, retained_model_params, log>>

\* logger.debug("    params      : %s", retained_model_params): the
\* argument is evaluated whatever the log level
CvReport ==
    /\ pc = "cv_report"
    /\ IF IsNone(retained_model_params)
       THEN Raise("UnboundLocalError")
       ELSE /\ pc' = "cv_loop"
            /\ UNCHANGED <<err, inputs, force_id_unit, param_grid, cv_locals,
                           retained, log>>

\* variant: the best parameters are not reported after the loop
CvFinishWithoutReport ==
    /\ pc = "cv_loop"
    /\ cand = Len(Candidates)
    /\ test_model' = None
    /\ pc' = IF caller = "train_and_eval" THEN "tae_rebuild" ELSE "cv_returned"
    /\ UNCHANGED <<err, inputs, force_id_unit, param_grid, cand, fold,
                   test_model_rmses, test_model_rmse, retained, log>>

\* logger.info("    params: %s", retained_model_params); del test_model;
\* gc.collect(); return retained_model
CvFinish ==
    /\ pc = "cv_loop"
    /\ cand = Len(Candidates)
    /\ IF IsNone(retained_model_params)
       THEN Raise("UnboundLocalError")
       ELSE /\ test_model' = None
            /\ pc' = IF caller = "train_and_eval" THEN "tae_rebuild" ELSE "cv_returned"
            /\ UNCHANGED <<err, inputs, force_id_unit, param_grid, cand, fold,
                           test_model_rmses, test_model_rmse, retained, log>>

\* ------------------------------------- train_and_eval, after the search
\* retained_model.make_feature(kfold_dataset["structures"], make_scaler=True)
TaeMakeFeature ==
    /\ pc = "tae_rebuild"
    /\ retained_model' = Some(make_feature(Get(retained_model), kfold_dataset.name))
    /\ log' = Append(log, Ev("make_feature", 0, 0, {}, kfold_dataset.name, None))
    /\ pc' = "tae_apply_weight"
    /\ UNCHANGED <<err, inputs, force_id_unit, param_grid, cv_locals,
                   retained_model_rmse, retained_model_params>>

\* retained_model.apply_weight(...)
TaeApplyWeight ==
    /\ pc = "tae_apply_weight"
    /\ retained_model' = Some(apply_weight(Get(retained_model), config.energy_weight,
                                           config.force_weight, n_kfold_structure))
    /\ log' = Append(log, Ev("apply_weight", 0, 0, {}, kfold_dataset.name, None))
    /\ pc' = "tae_train"
    /\ UNCHANGED <<err, inputs, force_id_unit, param_grid, cv_locals,
                   retained_model_rmse, retained_model_params>>

\* variant: the final training is skipped for a model that is already fitted
TaeTrainUnlessFitted ==
    /\ pc = "tae_train"
    /\ LET all_rows == 1..Len(kfold_dataset.target)
       IN  /\ retained_model' =
                  IF IsNone(Get(retained_model).coef)
                  THEN Some(train(Get(retained_model), all_rows, kfold_dataset.target))
                  ELSE retained_model
           /\ log' = Append(log, Ev("train", 0, 0, all_rows, kfold_dataset.name, None))
    /\ pc' = "tae_predict_kfold"
    /\ UNCHANGED <<err, inputs, force_id_unit, param_grid, cv_locals,
                   retained_model_rmse, retained_model_params>>

\* variant: the final training takes the energy rows only
TaeTrainEnergyRows ==
    /\ pc = "tae_train"
    /\ LET rows == 1..n_kfold_structure
       IN  /\ retained_model' = Some(train(Get(retained_model), rows,
                                           kfold_dataset.target))
           /\ log' = Append(log, Ev("train", 0, 0, rows, kfold_dataset.name, None))
    /\ pc' = "tae_predict_kfold"
    /\ UNCHANGED <<err, inputs, force_id_unit, param_grid, cv_locals,
                   retained_model_rmse, retained_model_params>>

\* train_index = [i for i in range(kfold_dataset["target"].shape[0])]
\* retained_model.train(train_index, kfold_dataset["target"])
TaeTrain ==
    /\ pc = "tae_train"
    /\ LET all_rows == 1..Len(kfold_dataset.target)
       IN  /\ retained_model' = Some(train(Get(retained_model), all_rows,
                                           kfold_dataset.target))
           /\ log' = Append(log, Ev("train", 0, 0, all_rows, kfold_dataset.name, None))
    /\ pc' = "tae_predict_kfold"
    /\ UNCHANGED <<err, inputs, force_id_unit, param_grid, cv_locals,
                   retained_model_rmse, retained_model_params>>

\* y_predict = retained_model.predict() and the k-fold pool's scores
TaePredictKfold ==
    /\ pc = "tae_predict_kfold"
    /\ log' = Append(log, Ev("predict", 0, 0, {}, kfold_dataset.name, None))
    /\ pc' = "tae_predict_test"
    /\ UNCHANGED <<err, inputs, force_id_unit, param_grid, cv_locals, retained>>

\* y_predict = retained_model.predict(test_dataset["structures"]), the
\* test pool's scores; return retained_model
TaePredictTest ==
    /\ pc = "tae_predict_test"
    /\ log' = Append(log, Ev("predict", 0, 0, {}, test_dataset.name, None))
    /\ pc' = "done"
    /\ UNCHANGED <<err, inputs, force_id_unit, param_grid, cv_locals, retained>>

CrossValidate ==
    \/ CvStart
    \/ CvNextCandidate
    \/ CvMakeFeature
    \/ CvApplyWeight
    \/ CvKFold
    \/ CvTrainFold
    \/ CvPredictFold
    \/ CvScoreFold
    \/ CvAggregate
    \/ CvCompare
    \/ CvRetainCopy
    \/ CvRetainRelease
    \/ CvReport
    \/ CvFinish

Next ==
    \/ TaeWeightTarget
    \/ TaeMakeParamGrid
    \/ TaeSelect
    \/ CrossValidate
    \/ TaeMakeFeature
    \/ TaeApplyWeight
    \/ TaeTrain
    \/ TaePredictKfold
    \/ TaePredictTest

Spec == Init /\ [][Next]_vars

SpecCV == InitCV /\ [][CrossValidate]_vars

\* cross_validate run on a grid of one point in the place of the direct
\* construction, followed by the same rebuild and retraining
TaeSearchSinglePoint ==
    /\ pc = "tae_select"
    /\ dont_cross_validate(Get(param_grid))
    /\ pc' = "cv_start"
    /\ UNCHANGED <<err, inputs, force_id_unit, param_grid, cv_locals, retained, log>>

NextSearch == Next \/ TaeSearchSinglePoint

SpecSearch == Init /\ [][NextSearch]_vars

\* ------------------------------------------------- reading the log
Entries(op) == {i \in 1..Len(log) : log[i].op = op}
\* the candidates whose COMPARE has been made
Compared == {log[i].cand : i \in Entries("compare")}
\* the mean combined-target RMSE candidate c came out with
MeanOf(c) == Get(log[CHOOSE i \in Entries("aggregate") : log[i].cand = c].rmse)
Means == [c \in 1..Cardinality(Entries("aggregate")) |-> MeanOf(c)]
\* the earliest candidate among cs whose mean is the minimum over cs
EarliestArgmin(cs) ==
    CHOOSE c \in cs :
        /\ \A d \in cs : ~Less(MeanOf(d), MeanOf(c))
        /\ \A d \in cs : d < c => Less(MeanOf(c), MeanOf(d))
AllRows == 1..Len(kfold_dataset.target)
OnePointGrid == ~make_param_grid_raises(config) /\ dont_cross_validate(make_param_grid(config))
EmptyGrid == ~make_param_grid_raises(config) /\ GridSize(make_param_grid(config)) = 0
AfterSearch == {"tae_rebuild", "tae_apply_weight", "tae_train", "tae_predict_kfold",
                "tae_predict_test", "done"}

\* ------------------------------------------------------------ claims

\* a step that replaces the retained triple is made by a candidate whose
\* mean is strictly lower than the retained mean, and takes that candidate
C1_ReplacedOnlyOnStrictImprovement ==
    (retained_model_params' # retained_model_params
        \/ (retained_model_rmse' # retained_model_rmse /\ ~IsNone(retained_model_rmse)))
    => /\ Less(Get(test_model_rmse), Get(retained_model_rmse))
       /\ retained_model_rmse' = test_model_rmse
       /\ retained_model_params' = Some(hyper_params)
       /\ retained_model' = test_model

\* between candidates and at the return, the retained candidate is the
\* earliest of the candidates compared so far that attains their minimum
C1_EarliestMinimumRetained ==
    (pc \in {"cv_loop", "cv_returned"} /\ cand >= 1)
    => LET best == EarliestArgmin(Compared)
       IN  /\ Compared = 1..cand
           /\ retained_model_params = Some(Candidates[best])
           /\ retained_model_rmse = Some(MeanOf(best))
           /\ Get(retained_model).params.hyper_params = Candidates[best]

\* C1 (SpecCV): the retained (parameters, snapshot, mean RMSE) triple is
\* replaced only by a candidate whose mean is strictly lower than the
\* retained mean; a tie never replaces it, so that after the whole grid the
\* retained candidate is the earliest one that attains the minimum mean.
C1_StrictImprovement ==
    [][C1_ReplacedOnlyOnStrictImprovement]_vars /\ []C1_EarliestMinimumRetained

\* C1 witness: the means [5.0, 6.0, 4.0, 4.0] end with the third candidate
C1_Witness ==
    /\ pc = "cv_returned"
    /\ Means = << Flt(5, 0), Flt(6, 0), Flt(4, 0), Flt(4, 0) >>
    /\ retained_model_params = Some(Candidates[3])

\* the stages of one candidate: BUILD_FEATURES, APPLY_WEIGHTS, n_splits
\* times (TRAIN_FOLD, PREDICT_FOLD, SCORE_FOLD), AGGREGATE, COMPARE and
\* RETAIN or DISCARD
StagesPerCandidate == 3 * config.n_splits + 5

StageAt(off) ==
    IF off = 0 THEN {"make_feature"}
    ELSE IF off = 1 THEN {"apply_weight"}
    ELSE IF off = StagesPerCandidate - 3 THEN {"aggregate"}
    ELSE IF off = StagesPerCandidate - 2 THEN {"compare"}
    ELSE IF off = StagesPerCandidate - 1 THEN {"retain", "discard"}
    ELSE IF (off - 2) % 3 = 0 THEN {"train"}
    ELSE IF (off - 2) % 3 = 1 THEN {"predict"}
    ELSE {"score"}

FoldAt(off) ==
    IF off < 2 \/ off >= StagesPerCandidate - 3 THEN 0 ELSE ((off - 2) \div 3) + 1

\* C3 (SpecCV): the candidates are evaluated once each in grid order, each
\* through make_feature, apply_weight, n_splits times (train, predict,
\* score), aggregate, compare and retain or discard; the log is at every
\* moment a prefix of that sequence, and when cross_validate returns it is
\* the whole of it: N feature builds and N * n_splits fold trainings.
C3_StageOrder ==
    /\ \A i \in 1..Len(log) :
          LET off == (i - 1) % StagesPerCandidate
          IN  /\ log[i].cand = ((i - 1) \div StagesPerCandidate) + 1
              /\ log[i].op \in StageAt(off)
              /\ log[i].fold = FoldAt(off)
    /\ ~IsNone(test_model) => Get(test_model).params.hyper_params = Candidates[cand]
    /\ pc = "cv_returned"
          => /\ config.n_splits >= 2
             /\ Len(log) = Len(Candidates) * StagesPerCandidate
             /\ Cardinality(Entries("make_feature")) = Len(Candidates)
             /\ Cardinality(Entries("train")) = Len(Candidates) * config.n_splits

\* C3 witness: two candidates, three structures, three folds, no force
C3_Witness ==
    /\ pc = "cv_returned"
    /\ Len(Candidates) = 2
    /\ config.n_splits = 3
    /\ n_kfold_structure = 3
    /\ ~config.use_force
    /\ Cardinality(Entries("train")) = 6

\* the feature matrices held through test_model and retained_model
HoldsMatrix(model) == ~IsNone(model) /\ ~IsNone(Get(model).x)

LiveMatrices ==
    (IF HoldsMatrix(test_model) THEN 1 ELSE 0)
        + (IF HoldsMatrix(retained_model) THEN 1 ELSE 0)

\* C8 (SpecCV): outside the retention step at most one feature matrix is
\* held; the retained snapshot holds none once the retention step is over;
\* no matrix is held when the next candidate's make_feature starts; when
\* cross_validate returns test_model is gone and the returned model has no
\* feature matrix.
C8_FeatureMatricesBounded ==
    /\ pc # "cv_release" => LiveMatrices <= 1 /\ ~HoldsMatrix(retained_model)
    /\ pc = "cv_make_feature" => LiveMatrices = 0
    /\ pc = "cv_returned" => IsNone(test_model) /\ LiveMatrices = 0

\* C8 witness: the search has returned after replacing the retained
\* snapshot at least once and discarding at least one candidate
C8_Witness ==
    /\ pc = "cv_returned"
    /\ Cardinality(Entries("retain")) >= 2
    /\ Cardinality(Entries("discard")) >= 1
    /\ ~IsNone(retained_model)

\* C9 (SpecCV): once the first candidate of a non-empty grid has been
\* compared a retained model exists, and the search does not fail for the
\* lack of one.
C9_RetainedModelExists ==
    (Compared # {} /\ pc \in {"cv_report", "cv_loop", "cv_returned", "error"})
    => ~IsNone(retained_model) /\ err # "UnboundLocalError"

\* the calls train_and_eval makes on the chosen model, and those it is to make
FinalCalls == SelectSeq(log, LAMBDA e : e.cand = 0)

FinalPlan ==
    << Ev("make_feature", 0, 0, {}, "kfold", None),
       Ev("apply_weight", 0, 0, {}, "kfold", None),
       Ev("train", 0, 0, AllRows, "kfold", None),
       Ev("predict", 0, 0, {}, "kfold", None),
       Ev("predict", 0, 0, {}, "test", None) >>

\* C4 (Spec): in train_and_eval the chosen model is rebuilt on the k-fold
\* pool, weighted and trained on every row of the k-fold target before the
\* two evaluation predictions (k-fold pool, then test pool); these calls
\* come after every call of the search; no fold training of the search
\* uses every row; the test pool is passed to no make_feature,
\* apply_weight or train.
C4_FullRetrainBeforeEvaluation ==
    /\ Len(FinalCalls) <= Len(FinalPlan)
    /\ FinalCalls = SubSeq(FinalPlan, 1, Len(FinalCalls))
    /\ \A i \in 1..(Len(log) - 1) : log[i].cand = 0 => log[i + 1].cand = 0
    /\ \A i \in Entries("train") :
          /\ log[i].rows \subseteq AllRows
          /\ log[i].cand > 0 => log[i].rows # AllRows
    /\ \A i \in 1..Len(log) :
          log[i].op \in {"make_feature", "apply_weight", "train"}
              => log[i].structures = kfold_dataset.name
    /\ pc = "done"
          => /\ FinalCalls = FinalPlan
             /\ Get(Get(retained_model).coef).rows = AllRows
             /\ Get(Get(retained_model).coef).target = kfold_dataset.target
             /\ Get(Get(retained_model).x).structures = kfold_dataset.name

\* C4 witness: a run through the search has returned its model
C4_Witness ==
    /\ pc = "done"
    /\ Entries("retain") # {}
    /\ config.use_force

\* C5 as claimed (Spec): a run with n_splits < 2 returns no trained model
\* and ends with an error, whatever the grid.
C5_FewFoldsAlwaysRejected ==
    config.n_splits < 2 => pc # "done" /\ (~ENABLED Next => pc = "error")

\* C5 as amended (Spec): with n_splits < 2 a run whose grid is not a single
\* point trains nothing, returns no model and ends with an error; a run on
\* a grid of one point never reads n_splits and returns its trained model.
C5_FewFoldsRejectedBySearch ==
    config.n_splits < 2
    => IF OnePointGrid
       THEN err = "none" /\ (~ENABLED Next => pc = "done")
       ELSE /\ pc \notin AfterSearch
            /\ Entries("train") = {}
            /\ IsNone(retained_model)
            /\ ~ENABLED Next => pc = "error"

\* C5 witness: KFold has refused n_splits < 2 at the first candidate
C5_Witness ==
    /\ config.n_splits < 2
    /\ pc = "error"
    /\ err = "ValueError"
    /\ Len(log) = 2

\* C6 (Spec): with an empty grid no candidate is evaluated, no model is
\* retained, and the run ends with an error and no returned model.
C6_EmptyGridRejected ==
    EmptyGrid
    => /\ log = <<>>
       /\ cand = 0
       /\ IsNone(test_model)
       /\ IsNone(retained_model)
       /\ pc \notin AfterSearch
       /\ ~ENABLED Next => pc = "error" /\ err \in {"ValueError", "UnboundLocalError"}

\* C6 witness: the search over an empty grid has failed
C6_Witness ==
    /\ EmptyGrid
    /\ Len(config.alpha) = 0
    /\ pc = "error"
    /\ err = "UnboundLocalError"

\* C7 (Spec): when the target length is no multiple of the number of
\* structures the run makes no model call and returns nothing.
C7_ShapeMismatchDetected ==
    Len(kfold_dataset.target) % n_kfold_structure # 0
    => log = <<>> /\ pc \notin AfterSearch

\* C10 (Spec): for min <= max the count candidates are min, min + 5, ...
\* and all lie within [min, max]; min = max gives the one candidate min.
C10_CountCandidatesWithinBounds ==
    (~IsNone(param_grid)
        /\ config.gaussian_params2_num_min <= config.gaussian_params2_num_max)
    => LET g == Get(param_grid).gaussian_params2_num
       IN  /\ Len(g) >= 1
           /\ \A i \in 1..Len(g) :
                 /\ g[i] = config.gaussian_params2_num_min + GaussianStep * (i - 1)
                 /\ config.gaussian_params2_num_min <= g[i]
                 /\ g[i] <= config.gaussian_params2_num_max
           /\ config.gaussian_params2_num_min = config.gaussian_params2_num_max
                 => g = << config.gaussian_params2_num_min >>

\* what the direct construction of the single candidate, rebuilt and
\* trained on all rows, comes to
DirectModel ==
    train(apply_weight(make_feature(
              arrange_model_from_hyper_params(
                  ParameterGrid(make_param_grid(config))[1], config),
              kfold_dataset.name),
            config.energy_weight, config.force_weight, n_kfold_structure),
          AllRows, kfold_dataset.target)

\* C2 (SpecSearch): on a grid of one point the model train_and_eval
\* returns is the one the direct construction gives, whether the model
\* came from the direct construction or out of cross_validate: the fold
\* trainings of the search leave no trace in it.
C2_SinglePointPathsAgree ==
    (pc = "done" /\ OnePointGrid) => retained_model = Some(DirectModel)

\* C2 witness: the model of a one-point grid came out of the search
C2_Witness ==
    /\ pc = "done"
    /\ OnePointGrid
    /\ Entries("score") # {}
    /\ Entries("retain") # {}

====
